---- MODULE Spec2Model ----
(***************************************************************************)
(* reveal.js broadcast plugin (class BroadCastPlugIn).                     *)
(*                                                                         *)
(* The model follows the debouncing variant of the plugin                  *)
(* (src/unnamed/part_000): a state publisher with a debounce timer and a   *)
(* blackout after remote changes, an event batcher with a flush timer, a   *)
(* handler for inbound messages, and the bootstrap on 'connect'.           *)
(*                                                                         *)
(* Time is the value of Date.now(), in milliseconds.  A handler runs to    *)
(* completion within one millisecond; handlers, timer callbacks and socket *)
(* callbacks never interleave (one JavaScript thread).  A timer set with   *)
(* setTimeout(f, d) runs no earlier than d ms after it was set, and may    *)
(* run later when the thread is busy or other tasks are served first.      *)
(***************************************************************************)
EXTENDS Integers, Sequences, FiniteSets, TLC

\* ------------------------------------------------------------------ bounds
\* The option values the deck is configured with (init merges the user's
\* configuration over the defaults, Object.assign), in ms.  They are kept
\* small so that every window opens and closes within the horizon; as with
\* the defaults, the blackout is longer than either delay.
eventDispatchDelay == 2
stateDispatchDelay == 2
remoteStateChangeBlackout == 3

\* Milliseconds the clock may advance after the page was opened: when the
\* state publisher and the event batcher run side by side (Spec), and when one
\* of them runs alone (SpecState, SpecEvents).
FullHorizon == 2
Horizon == 6
\* Largest horizontal slide index of the deck.
MaxIndex == 1
\* Custom events ('send') the other plugins raise in one run: next to the
\* state publisher (Spec), and with the event batcher alone (SpecEvents).
FullEvents == 2
MaxEvents == 4
\* The option dispatchDelay of src/broadcast.js, in milliseconds (100 in the
\* source).
dispatchDelay == 2
\* Two pages on one channel (SpecNet): the milliseconds from StartTime on in
\* which the two users navigate; after them only the plugins act.
UserWindow == 2

\* ------------------------------------------------------------------ values
\* null, and undefined
NULL == [isNull |-> TRUE]
UNDEFINED == "undefined"

\* Date.now() when the page is opened.  The timestamps of the constructor are
\* 0 and Date.now() counts from 1970, so every first interval is longer than
\* every configured delay.
StartTime == remoteStateChangeBlackout + stateDispatchDelay + eventDispatchDelay

\* What Reveal.getState() returns.
States ==
    { [indexh |-> h, indexv |-> 0, indexf |-> 0, paused |-> FALSE, overview |-> FALSE] :
        h \in 0..MaxIndex }
InitialState == [indexh |-> 0, indexv |-> 0, indexf |-> 0, paused |-> FALSE, overview |-> FALSE]

Instances == {1}

\* The two pages of SpecNet, both configured as master and client of one
\* channel, and the time SpecNet runs to: every timer set while the users
\* navigate is due before it.
Peers == {1, 2}
\* The slides the two users move between: the first one and the one after it.
Slides == {InitialState, [InitialState EXCEPT !.indexh = InitialState.indexh + 1]}
Mutual == [socketId |-> "main", secret |-> "s3cret"]
NetHorizon == UserWindow + stateDispatchDelay

\* The user's configuration of the plugin: socketId and secret.
Configs ==
    { [socketId |-> s, secret |-> k] :
        s \in {"main", UNDEFINED}, k \in {"s3cret", UNDEFINED} }

VARIABLES
    now,       \* Date.now()
    plugin,    \* the fields of each BroadCastPlugIn object
    deck,      \* each presentation engine's state, what getState() returns
    timers,    \* the browser's table of outstanding timers, per page
    wiring,    \* how often each page registered the listeners and the handler
    net,       \* the messages on their way to each page, in the order sent
    step,      \* the last handler that ran, with what it emitted
    pubTime,   \* when each instance last published a state, by kind
    samePubs,  \* publications of the deck's state since the deck last moved
    raised,    \* the custom events raised on each page, in order
    batches    \* the batches of events each page has sent, in order

vars == <<now, plugin, deck, timers, wiring, net, step, pubTime, samePubs, raised, batches>>

\* ------------------------------------------------------------------ constructor
\* The object after `new BroadCastPlugIn()`, with the options of `cfg` that
\* init will merge in.
constructor(cfg) ==
    [ options |-> cfg,
      socket |-> NULL,
      setupFinished |-> UNDEFINED,
      lastStateChange |-> 0,
      stateDispatchTimer |-> 0,
      lastSharedState |-> NULL,
      lastRemoteStateChange |-> 0,
      lastEventDispatch |-> 0,
      eventDispatchTimer |-> 0,
      eventQueue |-> <<>> ]

\* ------------------------------------------------------------------ timers
\* setTimeout returns a positive id no outstanding timer has; 0 stands for
\* the null of a handle field (an id is truthy, null is not).
FreshId(table) ==
    CHOOSE n \in 1..(Cardinality(table) + 1) : \A tm \in table : tm.id # n

setTimeout(c, kind, delay, state, t) ==
    [c EXCEPT !.timers = @ \cup
        {[id |-> FreshId(c.timers), kind |-> kind, due |-> t + delay, state |-> state]}]

clearTimeout(c, id) ==
    [c EXCEPT !.timers = {tm \in @ : tm.id # id}]

\* ------------------------------------------------------------------ the handlers
\* A handler works on the context c of its page: self (the plugin object),
\* deck (the engine's state), timers (the page's timer table), listeners
\* (how many times the state listeners are registered), and what the run has
\* put out so far: sent (socket.emit) and received ('received' events
\* dispatched on the document).  t is Date.now() during the run.

\* o[name] of JavaScript: undefined when the object has no such property.
Get(o, name) == IF name \in DOMAIN o THEN o[name] ELSE UNDEFINED

isEquivalent(s1, s2) ==
    /\ Get(s1, "indexh") = Get(s2, "indexh")
    /\ Get(s1, "indexv") = Get(s2, "indexv")
    /\ Get(s1, "indexf") = Get(s2, "indexf")
    /\ Get(s1, "paused") = Get(s2, "paused")

dispatchStateChange(c, state) ==
    LET messageData ==
            [ secret |-> c.self.options.secret,
              socketId |-> c.self.options.socketId,
              state |-> state ]
    IN  [c EXCEPT !.self.lastSharedState = state,
                  !.sent = Append(@, messageData)]

\* The arrow function handed to setTimeout in handleStateChange: `state` is
\* the variable of the call that set the timer.
stateTimerCallback(c, state) ==
    dispatchStateChange([c EXCEPT !.self.stateDispatchTimer = 0], state)

\* handleStateChange without its last statement (this.lastStateChange = now).
handleStateChange_NoStamp(c, t) ==
    LET state == c.deck
        self == c.self
    IN  IF self.lastSharedState # NULL /\ isEquivalent(state, self.lastSharedState)
        THEN c
        ELSE IF t - self.lastRemoteStateChange < remoteStateChangeBlackout
        THEN c
        ELSE IF t - self.lastStateChange >= stateDispatchDelay
        THEN dispatchStateChange(c, state)
        ELSE LET c0 == IF self.stateDispatchTimer # 0
                       THEN clearTimeout(c, self.stateDispatchTimer)
                       ELSE c
             IN  [ setTimeout(c0, "state", stateDispatchDelay, state, t)
                     EXCEPT !.self.stateDispatchTimer = FreshId(c0.timers) ]

\* handleStateChange without the clearTimeout of line 94.
handleStateChange_NoClear(c, t) ==
    LET state == c.deck
        self == c.self
    IN  IF self.lastSharedState # NULL /\ isEquivalent(state, self.lastSharedState)
        THEN c
        ELSE IF t - self.lastRemoteStateChange < remoteStateChangeBlackout
        THEN c
        ELSE LET c1 ==
                     IF t - self.lastStateChange >= stateDispatchDelay
                     THEN dispatchStateChange(c, state)
                     ELSE [ setTimeout(c, "state", stateDispatchDelay, state, t)
                              EXCEPT !.self.stateDispatchTimer = FreshId(c.timers) ]
             IN  [c1 EXCEPT !.self.lastStateChange = t]

\* handleStateChange taking the state for shared when it sets the timer.
handleStateChange_Speculative(c, t) ==
    LET state == c.deck
        self == c.self
    IN  IF self.lastSharedState # NULL /\ isEquivalent(state, self.lastSharedState)
        THEN c
        ELSE IF t - self.lastRemoteStateChange < remoteStateChangeBlackout
        THEN c
        ELSE LET c1 ==
                     IF t - self.lastStateChange >= stateDispatchDelay
                     THEN dispatchStateChange(c, state)
                     ELSE LET c0 == IF self.stateDispatchTimer # 0
                                    THEN clearTimeout(c, self.stateDispatchTimer)
                                    ELSE c
                          IN  [ setTimeout(c0, "state", stateDispatchDelay, state, t)
                                  EXCEPT !.self.stateDispatchTimer = FreshId(c0.timers),
                                         !.self.lastSharedState = state ]
             IN  [c1 EXCEPT !.self.lastStateChange = t]

\* handleStateChange without the test of the blackout (lines 80-81).
handleStateChange_NoBlackout(c, t) ==
    LET state == c.deck
        self == c.self
    IN  IF self.lastSharedState # NULL /\ isEquivalent(state, self.lastSharedState)
        THEN c
        ELSE LET c1 ==
                     IF t - self.lastStateChange >= stateDispatchDelay
                     THEN dispatchStateChange(c, state)
                     ELSE LET c0 == IF self.stateDispatchTimer # 0
                                    THEN clearTimeout(c, self.stateDispatchTimer)
                                    ELSE c
                          IN  [ setTimeout(c0, "state", stateDispatchDelay, state, t)
                                  EXCEPT !.self.stateDispatchTimer = FreshId(c0.timers) ]
             IN  [c1 EXCEPT !.self.lastStateChange = t]

\* handleStateChange publishing at once whatever the time since the last
\* change (the test of line 85 taken as true).
handleStateChange_AlwaysImmediate(c, t) ==
    LET state == c.deck
        self == c.self
    IN  IF self.lastSharedState # NULL /\ isEquivalent(state, self.lastSharedState)
        THEN c
        ELSE IF t - self.lastRemoteStateChange < remoteStateChangeBlackout
        THEN c
        ELSE [dispatchStateChange(c, state) EXCEPT !.self.lastStateChange = t]

handleStateChange(c, t) ==
    LET state == c.deck
        self == c.self
    IN  IF self.lastSharedState # NULL /\ isEquivalent(state, self.lastSharedState)
        THEN c
        ELSE IF t - self.lastRemoteStateChange < remoteStateChangeBlackout
        THEN c
        ELSE LET c1 ==
                     IF t - self.lastStateChange >= stateDispatchDelay
                     THEN dispatchStateChange(c, state)
                     ELSE LET c0 == IF self.stateDispatchTimer # 0
                                    THEN clearTimeout(c, self.stateDispatchTimer)
                                    ELSE c
                          IN  [ setTimeout(c0, "state", stateDispatchDelay, state, t)
                                  EXCEPT !.self.stateDispatchTimer = FreshId(c0.timers) ]
             IN  [c1 EXCEPT !.self.lastStateChange = t]

\* dispatchEventQueue without `this.eventQueue = []` (line 108).
dispatchEventQueue_KeepQueue(c, t) ==
    IF Len(c.self.eventQueue) > 0
    THEN [c EXCEPT !.self.lastEventDispatch = t,
                   !.sent = Append(@,
                       [ secret |-> c.self.options.secret,
                         socketId |-> c.self.options.socketId,
                         events |-> c.self.eventQueue ])]
    ELSE c

\* dispatchEventQueue without the test of the queue's length (line 106).
dispatchEventQueue_NoCheck(c, t) ==
    [c EXCEPT !.self.eventQueue = <<>>,
              !.self.lastEventDispatch = t,
              !.sent = Append(@,
                  [ secret |-> c.self.options.secret,
                    socketId |-> c.self.options.socketId,
                    events |-> c.self.eventQueue ])]

dispatchEventQueue(c, t) ==
    IF Len(c.self.eventQueue) > 0
    THEN [c EXCEPT !.self.eventQueue = <<>>,
                   !.self.lastEventDispatch = t,
                   !.sent = Append(@,
                       [ secret |-> c.self.options.secret,
                         socketId |-> c.self.options.socketId,
                         events |-> c.self.eventQueue ])]
    ELSE c

\* The timer's arrow function without `this.eventDispatchTimer = null`
\* (line 132).
eventTimerCallback_KeepHandle(c, t) ==
    dispatchEventQueue(c, t)

\* The arrow function handed to setTimeout in handleCustomEvent.
eventTimerCallback(c, t) ==
    dispatchEventQueue([c EXCEPT !.self.eventDispatchTimer = 0], t)

\* handleCustomEvent with the queue dispatched on every event, whatever the
\* time since the last dispatch.
handleCustomEvent_AlwaysDispatch(c, data, t) ==
    dispatchEventQueue([c EXCEPT !.self.eventQueue = Append(@, data.content)], t)

handleCustomEvent(c, data, t) ==
    LET c1 == [c EXCEPT !.self.eventQueue = Append(@, data.content)]
        interval == t - c.self.lastEventDispatch
    IN  IF interval >= eventDispatchDelay
        THEN dispatchEventQueue(c1, t)
        ELSE IF c1.self.eventDispatchTimer = 0
        THEN [ setTimeout(c1, "event", eventDispatchDelay - interval, NULL, t)
                 EXCEPT !.self.eventDispatchTimer = FreshId(c1.timers) ]
        ELSE c1

\* The engine raising one of 'slidechanged', 'fragmentshown', ... (or the
\* window raising 'load'): every listener setupMaster registered for it runs.
RECURSIVE raiseStateEvent(_, _, _)
raiseStateEvent(c, t, n) ==
    IF n = 0 THEN c ELSE raiseStateEvent(handleStateChange(c, t), t, n - 1)

\* Reveal.setState: the engine takes the state over and, when that moved the
\* deck, raises the change event before it returns.
setState(c, state, t) ==
    LET c1 == [c EXCEPT !.deck = state]
    IN  IF state # c.deck THEN raiseStateEvent(c1, t, c1.listeners) ELSE c1

\* data.state, data.events: a property the object does not have reads as
\* undefined, which the tests of handleReceivedMessage take like null.
Property(data, name) == IF name \in DOMAIN data THEN data[name] ELSE NULL

\* handleReceivedMessage without the test of the socketId (line 141).
handleReceivedMessage_NoFilter(c, data, t) ==
    LET c1 ==
            IF Property(data, "state") # NULL
            THEN setState(
                     [c EXCEPT !.self.lastSharedState = data.state,
                               !.self.lastRemoteStateChange = t],
                     data.state, t)
            ELSE c
    IN  IF Property(data, "events") # NULL
        THEN [c1 EXCEPT !.received = @ \o data.events]
        ELSE c1

\* handleReceivedMessage without the record of what was applied and when
\* (lines 144-145).
handleReceivedMessage_NoRecord(c, data, t) ==
    IF data.socketId # c.self.options.socketId
    THEN c
    ELSE LET c1 ==
                 IF Property(data, "state") # NULL
                 THEN setState(c, data.state, t)
                 ELSE c
         IN  IF Property(data, "events") # NULL
             THEN [c1 EXCEPT !.received = @ \o data.events]
             ELSE c1

\* handleReceivedMessage with setState called first and the received state
\* and the time recorded after it (line 146 moved before lines 144-145).
handleReceivedMessage_ApplyFirst(c, data, t) ==
    IF data.socketId # c.self.options.socketId
    THEN c
    ELSE LET c1 ==
                 IF Property(data, "state") # NULL
                 THEN [setState(c, data.state, t)
                         EXCEPT !.self.lastSharedState = data.state,
                                !.self.lastRemoteStateChange = t]
                 ELSE c
         IN  IF Property(data, "events") # NULL
             THEN [c1 EXCEPT !.received = @ \o data.events]
             ELSE c1

handleReceivedMessage(c, data, t) ==
    IF data.socketId # c.self.options.socketId
    THEN c
    ELSE LET c1 ==
                 IF Property(data, "state") # NULL
                 THEN setState(
                          [c EXCEPT !.self.lastSharedState = data.state,
                                    !.self.lastRemoteStateChange = t],
                          data.state, t)
                 ELSE c
         IN  IF Property(data, "events") # NULL
             THEN [c1 EXCEPT !.received = @ \o data.events]
             ELSE c1

\* ------------------------------------------------------------------ bootstrap
setupMaster(c) == [c EXCEPT !.listeners = @ + 1]

setupClient(c) == [c EXCEPT !.handlers = @ + 1]

\* init(reveal) up to the request for the socket script; TRUE in `loading`
\* when loadJavaScript was called.
init(c) ==
    LET c1 == [c EXCEPT !.self.setupFinished = FALSE]
    IN  IF c1.self.options.socketId = UNDEFINED
        THEN [c1 EXCEPT !.phase = "inert"]
        ELSE [c1 EXCEPT !.phase = "loading"]

\* The callback of loadJavaScript: the socket is created and the 'connect'
\* callback registered.
scriptLoaded(c) ==
    [c EXCEPT !.self.socket = "socket", !.phase = "connecting"]

\* The 'connect' callback without the test of setupFinished (line 197).
onConnect_NoGuard(c) ==
    LET c1 == IF c.self.options.secret # UNDEFINED THEN setupMaster(c) ELSE c
        c2 == IF c1.self.options.socketId # UNDEFINED THEN setupClient(c1) ELSE c1
    IN  [c2 EXCEPT !.self.setupFinished = TRUE, !.phase = "connected"]

\* The callback of socket.on('connect').
onConnect(c) ==
    IF c.self.setupFinished = TRUE
    THEN c
    ELSE LET c1 == IF c.self.options.secret # UNDEFINED THEN setupMaster(c) ELSE c
             c2 == IF c1.self.options.socketId # UNDEFINED THEN setupClient(c1) ELSE c1
         IN  [c2 EXCEPT !.self.setupFinished = TRUE, !.phase = "connected"]

\* The socket delivering `data` on the topic of the socketId: every handler
\* setupClient registered runs.
RECURSIVE deliver(_, _, _, _)
deliver(c, data, t, n) ==
    IF n = 0 THEN c ELSE deliver(handleReceivedMessage(c, data, t), data, t, n - 1)

\* ------------------------------------------------------------------ actions
Ctx(i) ==
    [ self |-> plugin[i],
      deck |-> deck[i],
      timers |-> timers[i],
      phase |-> wiring[i].phase,
      listeners |-> wiring[i].listeners,
      handlers |-> wiring[i].handlers,
      inbox |-> net[i],
      sent |-> <<>>,
      received |-> <<>> ]

StateMessages(msgs) == SelectSeq(msgs, LAMBDA m : "state" \in DOMAIN m)
EventMessages(msgs) == SelectSeq(msgs, LAMBDA m : "events" \in DOMAIN m)

\* The batches a sequence of events messages carries.
Batches(msgs) == [k \in 1..Len(msgs) |-> msgs[k].events]

\* The page's variables after handler `op` ran on instance i and left c;
\* `channel` is the socketId of the message a 'receive' handled.  The server
\* passes what the instance emitted on to the other pages of the session.
Commit(i, c, op, channel) ==
    /\ plugin' = [plugin EXCEPT ![i] = c.self]
    /\ deck' = [deck EXCEPT ![i] = c.deck]
    /\ timers' = [timers EXCEPT ![i] = c.timers]
    /\ wiring' = [wiring EXCEPT ![i] =
                    [phase |-> c.phase, listeners |-> c.listeners, handlers |-> c.handlers]]
    /\ net' = [j \in DOMAIN net |-> IF j = i THEN c.inbox ELSE net[j] \o c.sent]
    /\ step' = [op |-> op, inst |-> i, channel |-> channel, sent |-> c.sent, received |-> c.received]
    /\ pubTime' =
         IF StateMessages(c.sent) = <<>>
         THEN pubTime
         ELSE [pubTime EXCEPT ![i][IF op = "stateTimer" THEN "timer" ELSE "immediate"] = now]
    /\ samePubs' =
         [samePubs EXCEPT ![i] =
            IF op = "receive" /\ channel = c.self.options.socketId
            THEN 0
            ELSE (IF op = "navigate" THEN 0 ELSE @)
                   + Len(SelectSeq(StateMessages(c.sent), LAMBDA m : m.state = c.deck))]
    /\ batches' = [batches EXCEPT ![i] = @ \o Batches(EventMessages(c.sent))]

Tick(horizon) ==
    /\ now < StartTime + horizon
    /\ now' = now + 1
    /\ step' = [op |-> "tick", inst |-> 0, channel |-> UNDEFINED, sent |-> <<>>, received |-> <<>>]
    /\ UNCHANGED <<plugin, deck, timers, wiring, net, pubTime, samePubs, raised, batches>>

\* The deck calls the plugin's init.
InitPlugin(i) ==
    /\ wiring[i].phase = "constructed"
    /\ Commit(i, init(Ctx(i)), "init", UNDEFINED)
    /\ UNCHANGED <<now, raised>>

ScriptLoaded(i) ==
    /\ wiring[i].phase = "loading"
    /\ Commit(i, scriptLoaded(Ctx(i)), "scriptLoaded", UNDEFINED)
    /\ UNCHANGED <<now, raised>>

\* The socket connects, or connects again after an interruption.
Connect(i) ==
    /\ wiring[i].phase \in {"connecting", "connected"}
    /\ Commit(i, onConnect(Ctx(i)), "connect", UNDEFINED)
    /\ UNCHANGED <<now, raised>>

\* The user moves the deck to another slide; the engine raises 'slidechanged'.
Navigate(i, s) ==
    /\ s # deck[i]
    /\ LET c == [Ctx(i) EXCEPT !.deck = s]
       IN  Commit(i, raiseStateEvent(c, now, c.listeners), "navigate", UNDEFINED)
    /\ UNCHANGED <<now, raised>>

\* An event that leaves the state as it is ('load' of the window, or a
\* transition the engine reports twice) reaches the listeners.
Notify(i) ==
    /\ wiring[i].listeners > 0
    /\ Commit(i, raiseStateEvent(Ctx(i), now, wiring[i].listeners), "notify", UNDEFINED)
    /\ UNCHANGED <<now, raised>>

\* Another plugin dispatches 'send' on the document.  The content of an event
\* is its number in the order of raising and the time it was raised at.
RECURSIVE raiseSend(_, _, _, _)
raiseSend(c, data, t, n) ==
    IF n = 0 THEN c ELSE raiseSend(handleCustomEvent(c, data, t), data, t, n - 1)

Send(i, budget) ==
    /\ wiring[i].listeners > 0
    /\ Len(raised[i]) < budget
    /\ LET data == [content |-> [id |-> Len(raised[i]) + 1, at |-> now]]
       IN  /\ Commit(i, raiseSend(Ctx(i), data, now, wiring[i].listeners), "send", UNDEFINED)
           /\ raised' = [raised EXCEPT ![i] = Append(@, data.content)]
    /\ UNCHANGED now

\* A timer that is due runs: the browser drops it from its table and calls
\* the callback.
FireTimer(i, tm) ==
    /\ tm \in timers[i]
    /\ now >= tm.due
    /\ LET c == [Ctx(i) EXCEPT !.timers = @ \ {tm}]
       IN  IF tm.kind = "state"
           THEN Commit(i, stateTimerCallback(c, tm.state), "stateTimer", UNDEFINED)
           ELSE Commit(i, eventTimerCallback(c, now), "eventTimer", UNDEFINED)
    /\ UNCHANGED <<now, raised>>

\* What the socket may deliver: messages of this channel and of another one,
\* with a state, with events, with both or with neither.
Inbound ==
    { [socketId |-> id, state |-> s, events |-> e] :
        id \in {"main", "other"},
        s \in States \cup {NULL},
        e \in {NULL, <<"x", "y">>} }

Receive(i, data) ==
    /\ wiring[i].handlers > 0
    /\ Commit(i, deliver(Ctx(i), data, now, wiring[i].handlers), "receive", data.socketId)
    /\ UNCHANGED <<now, raised>>

Init ==
    /\ now = StartTime
    /\ plugin \in [Instances -> {constructor(cfg) : cfg \in Configs}]
    /\ deck = [i \in Instances |-> InitialState]
    /\ timers = [i \in Instances |-> {}]
    /\ net = [i \in Instances |-> <<>>]
    /\ wiring = [i \in Instances |-> [phase |-> "constructed", listeners |-> 0, handlers |-> 0]]
    /\ step = [op |-> "new", inst |-> 0, channel |-> UNDEFINED, sent |-> <<>>, received |-> <<>>]
    /\ pubTime = [i \in Instances |-> [immediate |-> 0, timer |-> 0]]
    /\ samePubs = [i \in Instances |-> 0]
    /\ raised = [i \in Instances |-> <<>>]
    /\ batches = [i \in Instances |-> <<>>]

Next ==
    \/ Tick(FullHorizon)
    \/ \E i \in Instances : InitPlugin(i)
    \/ \E i \in Instances : ScriptLoaded(i)
    \/ \E i \in Instances : Connect(i)
    \/ \E i \in Instances, s \in States : Navigate(i, s)
    \/ \E i \in Instances : Notify(i)
    \/ \E i \in Instances : Send(i, FullEvents)
    \/ \E i \in Instances : \E tm \in timers[i] : FireTimer(i, tm)
    \/ \E i \in Instances, data \in Inbound : Receive(i, data)

Spec == Init /\ [][Next]_vars

\* The state publisher alone: no custom event is raised or received.
NextState ==
    \/ Tick(Horizon)
    \/ \E i \in Instances : InitPlugin(i)
    \/ \E i \in Instances : ScriptLoaded(i)
    \/ \E i \in Instances : Connect(i)
    \/ \E i \in Instances, s \in States : Navigate(i, s)
    \/ \E i \in Instances : Notify(i)
    \/ \E i \in Instances : \E tm \in timers[i] : FireTimer(i, tm)
    \/ \E i \in Instances, data \in {d \in Inbound : d.events = NULL} : Receive(i, data)

SpecState == Init /\ [][NextState]_vars

\* The event batcher alone: the deck stays on its slide and no state arrives.
NextEvents ==
    \/ Tick(Horizon)
    \/ \E i \in Instances : InitPlugin(i)
    \/ \E i \in Instances : ScriptLoaded(i)
    \/ \E i \in Instances : Connect(i)
    \/ \E i \in Instances : Send(i, MaxEvents)
    \/ \E i \in Instances : \E tm \in timers[i] : FireTimer(i, tm)
    \/ \E i \in Instances, data \in {d \in Inbound : d.state = NULL} : Receive(i, data)

SpecEvents == Init /\ [][NextEvents]_vars

\* Two pages on one channel, each master and client.  The page as it is once
\* its socket has connected: constructor, init, the script's callback and the
\* 'connect' callback have run.
Connected ==
    onConnect(scriptLoaded(init(
        [ self |-> constructor(Mutual),
          deck |-> InitialState,
          timers |-> {},
          phase |-> "constructed",
          listeners |-> 0,
          handlers |-> 0,
          inbox |-> <<>>,
          sent |-> <<>>,
          received |-> <<>> ])))

InitNet ==
    /\ now = StartTime
    /\ plugin = [i \in Peers |-> Connected.self]
    /\ deck = [i \in Peers |-> Connected.deck]
    /\ timers = [i \in Peers |-> Connected.timers]
    /\ net = [i \in Peers |-> <<>>]
    /\ wiring = [i \in Peers |->
                   [ phase |-> Connected.phase,
                     listeners |-> Connected.listeners,
                     handlers |-> Connected.handlers ]]
    /\ step = [op |-> "new", inst |-> 0, channel |-> UNDEFINED, sent |-> <<>>, received |-> <<>>]
    /\ pubTime = [i \in Peers |-> [immediate |-> 0, timer |-> 0]]
    /\ samePubs = [i \in Peers |-> 0]
    /\ raised = [i \in Peers |-> <<>>]
    /\ batches = [i \in Peers |-> <<>>]

\* A user moves the deck while the users are at it.
UserNavigate(i, s) ==
    /\ now < StartTime + UserWindow
    /\ Navigate(i, s)

\* The socket hands the oldest message on its way to page i to the handlers
\* setupClient registered.
Deliver(i) ==
    /\ net[i] # <<>>
    /\ wiring[i].handlers > 0
    /\ LET data == Head(net[i])
           c == [Ctx(i) EXCEPT !.inbox = Tail(@)]
       IN  Commit(i, deliver(c, data, now, wiring[i].handlers), "receive", data.socketId)
    /\ UNCHANGED <<now, raised>>

NextNet ==
    \/ Tick(NetHorizon)
    \/ \E i \in Peers, s \in Slides : UserNavigate(i, s)
    \/ \E i \in Peers : \E tm \in timers[i] : FireTimer(i, tm)
    \/ \E i \in Peers : Deliver(i)

\* Time passes, a timer that is due runs, and the socket delivers what was
\* sent; the users owe nothing.
SpecNet ==
    /\ InitNet
    /\ [][NextNet]_vars
    /\ WF_vars(Tick(NetHorizon))
    /\ WF_vars(\E i \in Peers : \E tm \in timers[i] : FireTimer(i, tm))
    /\ WF_vars(\E i \in Peers : Deliver(i))

\* ------------------------------------------------------------------ broadcast.js
\* The variant of the plugin in src/broadcast.js: no debounce of the state,
\* no blackout, one `timeoutSet` flag for the event batcher, and the setup in
\* the callback of the socket script.  Its methods carry the name of the file
\* where part_000 has a method of the same name.

\* The configuration of a page running broadcast.js: the options the user
\* may set, and whether the page's URL holds 'receiver'.
broadcast_Configs ==
    { [socketId |-> s, secret |-> k, master |-> m, client |-> cl, receiver |-> r] :
        s \in {"main", UNDEFINED}, k \in {"s3cret", UNDEFINED},
        m \in BOOLEAN, cl \in BOOLEAN, r \in BOOLEAN }

broadcast_constructor(cfg) ==
    [ options |-> cfg,
      socket |-> NULL,
      lastMsgState |-> NULL,
      lastDispatch |-> 0,
      timeoutSet |-> FALSE,
      eventQueue |-> <<>> ]

broadcast_isEquivalent(a, b) ==
    LET aProps == DOMAIN a
        bProps == DOMAIN b
    IN  IF Cardinality(aProps) # Cardinality(bProps)
        THEN FALSE
        ELSE \A propName \in aProps : a[propName] = Get(b, propName)

broadcast_handleStateChange(c) ==
    IF c.self.lastMsgState = NULL \/ ~broadcast_isEquivalent(c.deck, c.self.lastMsgState)
    THEN LET messageData ==
                 [ secret |-> c.self.options.secret,
                   socketId |-> c.self.options.socketId,
                   state |-> c.deck ]
         IN  [c EXCEPT !.self.lastMsgState = c.deck,
                       !.sent = Append(@, messageData)]
    ELSE c

postEventQueue(c, t) ==
    IF Len(c.self.eventQueue) > 0
    THEN [c EXCEPT !.self.eventQueue = <<>>,
                   !.self.lastDispatch = t,
                   !.sent = Append(@,
                       [ secret |-> c.self.options.secret,
                         socketId |-> c.self.options.socketId,
                         events |-> c.self.eventQueue ])]
    ELSE c

\* The arrow function handed to setTimeout in handleCustomEvent.
broadcast_timeoutCallback(c, t) ==
    postEventQueue([c EXCEPT !.self.timeoutSet = FALSE], t)

broadcast_handleCustomEvent(c, data, t) ==
    LET c1 == [c EXCEPT !.self.eventQueue = Append(@, data.content)]
        interval == t - c.self.lastDispatch
    IN  IF interval >= dispatchDelay
        THEN postEventQueue(c1, t)
        ELSE IF ~c1.self.timeoutSet
        THEN setTimeout([c1 EXCEPT !.self.timeoutSet = TRUE],
                        "event", dispatchDelay - interval, NULL, t)
        ELSE c1

RECURSIVE broadcast_raiseStateEvent(_, _)
broadcast_raiseStateEvent(c, n) ==
    IF n = 0 THEN c ELSE broadcast_raiseStateEvent(broadcast_handleStateChange(c), n - 1)

\* Reveal.setState, as for part_000.
broadcast_setState(c, state) ==
    LET c1 == [c EXCEPT !.deck = state]
    IN  IF state # c.deck THEN broadcast_raiseStateEvent(c1, c1.listeners) ELSE c1

broadcast_handleReceivedMessage(c, data) ==
    IF data.socketId # c.self.options.socketId
    THEN c
    ELSE LET c1 ==
                 IF Property(data, "state") # NULL
                 THEN broadcast_setState([c EXCEPT !.self.lastMsgState = data.state],
                                         data.state)
                 ELSE c
         IN  IF Property(data, "events") # NULL
             THEN [c1 EXCEPT !.received = @ \o data.events]
             ELSE c1

\* init(reveal) up to the request for the socket script.
broadcast_init(c) == [c EXCEPT !.phase = "loading"]

\* The callback of loadJavaScript.
broadcast_scriptLoaded(c) ==
    LET c0 == [c EXCEPT !.self.socket = "socket", !.phase = "connected"]
        c1 == IF c0.self.options.master /\ ~c0.self.options.receiver
              THEN setupMaster(c0) ELSE c0
    IN  IF c1.self.options.client THEN setupClient(c1) ELSE c1

RECURSIVE broadcast_deliver(_, _, _)
broadcast_deliver(c, data, n) ==
    IF n = 0 THEN c ELSE broadcast_deliver(broadcast_handleReceivedMessage(c, data), data, n - 1)

RECURSIVE broadcast_raiseSend(_, _, _, _)
broadcast_raiseSend(c, data, t, n) ==
    IF n = 0 THEN c ELSE broadcast_raiseSend(broadcast_handleCustomEvent(c, data, t), data, t, n - 1)

\* The steps of a page running broadcast.js.
broadcast_InitPlugin(i) ==
    /\ wiring[i].phase = "constructed"
    /\ Commit(i, broadcast_init(Ctx(i)), "init", UNDEFINED)
    /\ UNCHANGED <<now, raised>>

broadcast_ScriptLoaded(i) ==
    /\ wiring[i].phase = "loading"
    /\ Commit(i, broadcast_scriptLoaded(Ctx(i)), "scriptLoaded", UNDEFINED)
    /\ UNCHANGED <<now, raised>>

broadcast_Navigate(i, s) ==
    /\ s # deck[i]
    /\ LET c == [Ctx(i) EXCEPT !.deck = s]
       IN  Commit(i, broadcast_raiseStateEvent(c, c.listeners), "navigate", UNDEFINED)
    /\ UNCHANGED <<now, raised>>

broadcast_Notify(i) ==
    /\ wiring[i].listeners > 0
    /\ Commit(i, broadcast_raiseStateEvent(Ctx(i), wiring[i].listeners), "notify", UNDEFINED)
    /\ UNCHANGED <<now, raised>>

broadcast_Send(i, budget) ==
    /\ wiring[i].listeners > 0
    /\ Len(raised[i]) < budget
    /\ LET data == [content |-> [id |-> Len(raised[i]) + 1, at |-> now]]
       IN  /\ Commit(i, broadcast_raiseSend(Ctx(i), data, now, wiring[i].listeners),
                     "send", UNDEFINED)
           /\ raised' = [raised EXCEPT ![i] = Append(@, data.content)]
    /\ UNCHANGED now

broadcast_FireTimer(i, tm) ==
    /\ tm \in timers[i]
    /\ now >= tm.due
    /\ Commit(i, broadcast_timeoutCallback([Ctx(i) EXCEPT !.timers = @ \ {tm}], now),
              "eventTimer", UNDEFINED)
    /\ UNCHANGED <<now, raised>>

broadcast_Receive(i, data) ==
    /\ wiring[i].handlers > 0
    /\ Commit(i, broadcast_deliver(Ctx(i), data, wiring[i].handlers), "receive", data.socketId)
    /\ UNCHANGED <<now, raised>>

InitBroadcast ==
    /\ now = StartTime
    /\ plugin \in [Instances -> {broadcast_constructor(cfg) : cfg \in broadcast_Configs}]
    /\ deck = [i \in Instances |-> InitialState]
    /\ timers = [i \in Instances |-> {}]
    /\ net = [i \in Instances |-> <<>>]
    /\ wiring = [i \in Instances |-> [phase |-> "constructed", listeners |-> 0, handlers |-> 0]]
    /\ step = [op |-> "new", inst |-> 0, channel |-> UNDEFINED, sent |-> <<>>, received |-> <<>>]
    /\ pubTime = [i \in Instances |-> [immediate |-> 0, timer |-> 0]]
    /\ samePubs = [i \in Instances |-> 0]
    /\ raised = [i \in Instances |-> <<>>]
    /\ batches = [i \in Instances |-> <<>>]

NextBroadcast ==
    \/ Tick(FullHorizon)
    \/ \E i \in Instances : broadcast_InitPlugin(i)
    \/ \E i \in Instances : broadcast_ScriptLoaded(i)
    \/ \E i \in Instances, s \in States : broadcast_Navigate(i, s)
    \/ \E i \in Instances : broadcast_Notify(i)
    \/ \E i \in Instances : broadcast_Send(i, FullEvents)
    \/ \E i \in Instances : \E tm \in timers[i] : broadcast_FireTimer(i, tm)
    \/ \E i \in Instances, data \in Inbound : broadcast_Receive(i, data)

SpecBroadcast == InitBroadcast /\ [][NextBroadcast]_vars

\* ------------------------------------------------------------------ isEquivalent alone
\* The two isEquivalent methods on flat records of every shape: the
\* properties a record may have, and the scalars they may hold (the scalars
\* written as strings, === as equality of the strings).
PropertyNames == {"indexh", "indexv", "paused", "overview"}
Scalars == {"0", "1", UNDEFINED}
FlatRecords == UNION {[names -> Scalars] : names \in SUBSET PropertyNames}

\* The engine's state is a and the state last shared is b, whatever records
\* they are; nothing else has happened.
InitEquiv ==
    /\ now = StartTime
    /\ deck \in [Instances -> FlatRecords]
    /\ plugin \in [Instances ->
                     {[constructor(Mutual) EXCEPT !.lastSharedState = b] : b \in FlatRecords}]
    /\ timers = [i \in Instances |-> {}]
    /\ net = [i \in Instances |-> <<>>]
    /\ wiring = [i \in Instances |-> [phase |-> "constructed", listeners |-> 0, handlers |-> 0]]
    /\ step = [op |-> "new", inst |-> 0, result |-> FALSE]
    /\ pubTime = [i \in Instances |-> [immediate |-> 0, timer |-> 0]]
    /\ samePubs = [i \in Instances |-> 0]
    /\ raised = [i \in Instances |-> <<>>]
    /\ batches = [i \in Instances |-> <<>>]

\* this.isEquivalent(state, this.lastSharedState) of part_000 is called.
Compare(i) ==
    /\ step' = [op |-> "isEquivalent", inst |-> i,
                result |-> isEquivalent(deck[i], plugin[i].lastSharedState)]
    /\ UNCHANGED <<now, plugin, deck, timers, wiring, net, pubTime, samePubs, raised, batches>>

\* this.isEquivalent(this.deck.getState(), this.lastMsgState) of broadcast.js
\* is called on the same two records.
broadcast_Compare(i) ==
    /\ step' = [op |-> "broadcast_isEquivalent", inst |-> i,
                result |-> broadcast_isEquivalent(deck[i], plugin[i].lastSharedState)]
    /\ UNCHANGED <<now, plugin, deck, timers, wiring, net, pubTime, samePubs, raised, batches>>

NextEquiv ==
    \/ \E i \in Instances : Compare(i)
    \/ \E i \in Instances : broadcast_Compare(i)

SpecEquiv == InitEquiv /\ [][NextEquiv]_vars

\* ------------------------------------------------------------------ the batcher to its end
\* The event batcher with the timers owed their run: an event is raised only
\* as long as a flush timer set for it falls due before the time the run
\* ends at.
SendInTime(i) ==
    /\ now + eventDispatchDelay <= StartTime + Horizon
    /\ Send(i, MaxEvents)

\* The page is a master and client whose socket has connected.
InitEventsFair ==
    /\ now = StartTime
    /\ plugin = [i \in Instances |-> Connected.self]
    /\ deck = [i \in Instances |-> Connected.deck]
    /\ timers = [i \in Instances |-> Connected.timers]
    /\ net = [i \in Instances |-> <<>>]
    /\ wiring = [i \in Instances |->
                   [ phase |-> Connected.phase,
                     listeners |-> Connected.listeners,
                     handlers |-> Connected.handlers ]]
    /\ step = [op |-> "new", inst |-> 0, channel |-> UNDEFINED, sent |-> <<>>, received |-> <<>>]
    /\ pubTime = [i \in Instances |-> [immediate |-> 0, timer |-> 0]]
    /\ samePubs = [i \in Instances |-> 0]
    /\ raised = [i \in Instances |-> <<>>]
    /\ batches = [i \in Instances |-> <<>>]

NextEventsFair ==
    \/ Tick(Horizon)
    \/ \E i \in Instances : Connect(i)
    \/ \E i \in Instances : SendInTime(i)
    \/ \E i \in Instances : \E tm \in timers[i] : FireTimer(i, tm)
    \/ \E i \in Instances, data \in {d \in Inbound : d.state = NULL} : Receive(i, data)

\* Time passes and a timer that is due runs.
SpecEventsFair ==
    /\ InitEventsFair
    /\ [][NextEventsFair]_vars
    /\ WF_vars(Tick(Horizon))
    /\ WF_vars(\E i \in Instances : \E tm \in timers[i] : FireTimer(i, tm))

\* ------------------------------------------------------------------ claims
\* The state publications of the last step, and whether instance i made one.
Published(i) == step.inst = i /\ StateMessages(step.sent) # <<>>

\* The time of the last state publication of instance i, 0 when there is none.
LastPublication(i) ==
    IF pubTime[i].immediate > pubTime[i].timer THEN pubTime[i].immediate ELSE pubTime[i].timer

\* C1 as claimed: any two state publications of an instance, whether made by
\* handleStateChange at once or by a debounce timer, are at least
\* stateDispatchDelay apart.
C1_AnyTwoPublicationsApart ==
    [][\A i \in Instances :
         (Published(i)' /\ LastPublication(i) > 0)
             => now' - LastPublication(i) >= stateDispatchDelay]_vars

\* C1 as amended: two publications made at once by handleStateChange are at
\* least stateDispatchDelay apart, and so are two publications made by
\* debounce timers; a publication made at once and one made by a timer can
\* be closer, down to the same millisecond.
C1_SameKindPublicationsApart ==
    [][\A i \in Instances :
         Published(i)' =>
             LET kind == IF step'.op = "stateTimer" THEN "timer" ELSE "immediate"
             IN  pubTime[i][kind] > 0 => now' - pubTime[i][kind] >= stateDispatchDelay]_vars

\* A timer publication, then a second publication at once, after a first one.
C1_Witness ==
    \E i \in Instances :
        /\ Published(i)
        /\ step.op \in {"navigate", "notify"}
        /\ pubTime[i].timer > 0
        /\ pubTime[i].immediate > pubTime[i].timer

\* Instance i applied a remote state and is within the blackout after it.
InBlackout(i) ==
    /\ plugin[i].lastRemoteStateChange > 0
    /\ now - plugin[i].lastRemoteStateChange < remoteStateChangeBlackout

\* C2: a change notification (a call of handleStateChange) that arrives
\* within remoteStateChangeBlackout after the instance applied a remote state
\* emits no state publication and sets no debounce timer, also when the
\* deck's state differs from lastSharedState.
C2_EchoSuppression ==
    [][\A i \in Instances :
         (step'.inst = i /\ step'.op \in {"navigate", "notify"} /\ InBlackout(i))
             => /\ step'.sent = <<>>
                /\ timers'[i] = timers[i]
                /\ plugin'[i].stateDispatchTimer = plugin[i].stateDispatchTimer
                /\ plugin'[i].lastSharedState = plugin[i].lastSharedState]_vars

\* The deck was moved within the blackout to a state that is not the one
\* last shared, and the listeners were told.
C2_Witness ==
    \E i \in Instances :
        /\ step.inst = i /\ step.op = "navigate"
        /\ wiring[i].listeners > 0
        /\ InBlackout(i)
        /\ ~isEquivalent(deck[i], plugin[i].lastSharedState)

\* C3 as claimed: the state a debounce timer publishes when it fires is the
\* state the engine is in at that moment.
C3_TimerPublishesCurrentState ==
    \A i \in Instances :
        (step.inst = i /\ step.op = "stateTimer")
            => \A k \in 1..Len(step.sent) : step.sent[k].state = deck[i]

\* C4 as claimed: while the deck stays in one state and no remote message
\* is applied, at most one publication carries that state, counting the
\* ones made at once and the ones made by a debounce timer.
C4_OnePublicationPerState ==
    \A i \in Instances : samePubs[i] <= 1

\* ------------------------------------------------------------------ events
RECURSIVE Concat(_)
Concat(seqs) == IF seqs = <<>> THEN <<>> ELSE Head(seqs) \o Concat(Tail(seqs))

IsPrefix(s, t) == Len(s) <= Len(t) /\ \A k \in 1..Len(s) : s[k] = t[k]

Elements(s) == {s[k] : k \in 1..Len(s)}

\* The batch of the events message instance i sent in the last step, <<>>
\* when it sent none.
BatchSent(i) ==
    IF step.inst = i /\ EventMessages(step.sent) # <<>>
    THEN EventMessages(step.sent)[1].events
    ELSE <<>>

\* The longest time between the raising of two events of a batch.
Spread(batch) ==
    IF batch = <<>> THEN 0
    ELSE LET at == {batch[k].at : k \in 1..Len(batch)}
         IN  (CHOOSE x \in at : \A y \in at : y <= x) - (CHOOSE x \in at : \A y \in at : x <= y)

\* C5: the batches an instance has sent, one after the other, are at all
\* times a prefix of the events raised on it, in the order raised: no event
\* is sent twice, none is left out between two sent ones.
C5_EventsOnceInOrder ==
    \A i \in Instances : IsPrefix(Concat(batches[i]), raised[i])

\* Four events went out in two batches, the second of more than one event.
C5_Witness ==
    \E i \in Instances :
        /\ Len(raised[i]) = MaxEvents
        /\ Len(batches[i]) >= 2
        /\ Len(batches[i][Len(batches[i])]) >= 2
        /\ Concat(batches[i]) = raised[i]

\* C6 as claimed: three events, each raised less than eventDispatchDelay after
\* the one before, leave in one batch that holds exactly the three of them,
\* whatever the batcher's state before the first; and no batch holds two
\* events raised more than eventDispatchDelay apart.
C6_ThreeEventsOneBatch ==
    \A i \in Instances :
        /\ \A k \in 1..(Len(raised[i]) - 2) :
             LET e == raised[i]
             IN  (e[k + 1].at - e[k].at < eventDispatchDelay
                    /\ e[k + 2].at - e[k + 1].at < eventDispatchDelay)
                   => \A n \in 1..Len(batches[i]) :
                        Elements(batches[i][n]) \cap {e[k], e[k + 1], e[k + 2]} # {}
                            => batches[i][n] = <<e[k], e[k + 1], e[k + 2]>>
        /\ \A n \in 1..Len(batches[i]) : Spread(batches[i][n]) <= eventDispatchDelay

\* C6 as amended: an event raised less than eventDispatchDelay after the last
\* dispatch is queued behind a pending flush timer and nothing is sent; an
\* event raised later than that is sent at once; every batch sent is the
\* whole queue in the order raised, and empties it; a batch sent by the
\* flush timer holds no two events raised eventDispatchDelay or more apart.
C6_BatchIsTheQueue ==
    [][\A i \in Instances :
         LET queue == plugin[i].eventQueue
             early == now - plugin[i].lastEventDispatch < eventDispatchDelay
             event == raised'[i][Len(raised'[i])]
         IN  /\ (step'.inst = i /\ step'.op = "send" /\ early)
                  => /\ step'.sent = <<>>
                     /\ plugin'[i].eventQueue = Append(queue, event)
                     /\ \E tm \in timers'[i] :
                          tm.kind = "event" /\ tm.id = plugin'[i].eventDispatchTimer
             /\ (step'.inst = i /\ step'.op = "send" /\ ~early)
                  => /\ BatchSent(i)' = Append(queue, event)
                     /\ plugin'[i].eventQueue = <<>>
             /\ (step'.inst = i /\ step'.op = "eventTimer")
                  => /\ BatchSent(i)' = queue
                     /\ plugin'[i].eventQueue = <<>>
                     /\ Spread(queue) < eventDispatchDelay]_vars

\* The first event went out alone and the next three in one batch, sent by
\* the flush timer.
C6_Witness ==
    \E i \in Instances :
        /\ step.op = "eventTimer"
        /\ Len(raised[i]) = 4
        /\ batches[i] = << <<raised[i][1]>>, <<raised[i][2], raised[i][3], raised[i][4]>> >>

\* ------------------------------------------------------------------ frames
\* The timers of one kind outstanding on the page of instance i.
Outstanding(i, kind) == {tm \in timers[i] : tm.kind = kind}

\* C7: a message whose socketId is not the configured one changes nothing:
\* the deck keeps its state (setState is not called), every field of the
\* plugin keeps its value (lastSharedState, lastRemoteStateChange, the timer
\* handles, the event queue), the timers stay as they are, nothing is sent
\* and no 'received' event is dispatched.
C7_ForeignMessageIgnored ==
    [][\A i \in Instances :
         (step'.inst = i /\ step'.op = "receive"
            /\ step'.channel # plugin[i].options.socketId)
             => /\ plugin'[i] = plugin[i]
                /\ deck'[i] = deck[i]
                /\ timers'[i] = timers[i]
                /\ pubTime'[i] = pubTime[i]
                /\ step'.sent = <<>>
                /\ step'.received = <<>>]_vars

\* A foreign message was handled with both timers pending, an event queued
\* and a state shared before.
C7_Witness ==
    \E i \in Instances :
        /\ step.inst = i /\ step.op = "receive" /\ step.channel = "other"
        /\ plugin[i].options.socketId = "main"
        /\ Outstanding(i, "state") # {} /\ Outstanding(i, "event") # {}
        /\ plugin[i].eventQueue # <<>>
        /\ plugin[i].lastSharedState # NULL

\* C8: at most one debounce timer and at most one flush timer are
\* outstanding, and stateDispatchTimer (eventDispatchTimer) is non-null
\* exactly when a timer of its kind is outstanding, whose id it then holds.
C8_TimerUniqueness ==
    \A i \in Instances :
        /\ Cardinality(Outstanding(i, "state")) <= 1
        /\ Cardinality(Outstanding(i, "event")) <= 1
        /\ plugin[i].stateDispatchTimer # 0 <=> Outstanding(i, "state") # {}
        /\ plugin[i].eventDispatchTimer # 0 <=> Outstanding(i, "event") # {}
        /\ \A tm \in Outstanding(i, "state") : tm.id = plugin[i].stateDispatchTimer
        /\ \A tm \in Outstanding(i, "event") : tm.id = plugin[i].eventDispatchTimer

\* Both timers are outstanding, the debounce timer past its due time.
C8_Witness ==
    \E i \in Instances :
        /\ Outstanding(i, "event") # {}
        /\ \E tm \in Outstanding(i, "state") : tm.due <= now

\* C9: lastSharedState changes only in a step that emits a state publication
\* or that applies a state message of the instance's own channel; after a
\* publication it is the published state, after the application the
\* received state.
C9_LastSharedStateFrame ==
    [][\A i \in Instances :
         /\ plugin'[i].lastSharedState # plugin[i].lastSharedState
              => \/ Published(i)'
                 \/ /\ step'.inst = i /\ step'.op = "receive"
                    /\ step'.channel = plugin[i].options.socketId
         /\ Published(i)'
              => plugin'[i].lastSharedState
                   = StateMessages(step'.sent)[Len(StateMessages(step'.sent))].state
         /\ \A data \in Inbound :
              (Receive(i, data) /\ data.socketId = plugin[i].options.socketId
                 /\ data.state # NULL)
                  => plugin'[i].lastSharedState = data.state]_vars

\* A remote state was applied after a local publication, with a debounce
\* timer pending and an event handled before.
C9_Witness ==
    \E i \in Instances :
        /\ step.inst = i /\ step.op = "receive" /\ step.channel = "main"
        /\ plugin[i].lastRemoteStateChange = now
        /\ plugin[i].lastSharedState = deck[i]
        /\ pubTime[i].immediate > 0
        /\ plugin[i].lastSharedState.indexh # 0
        /\ Outstanding(i, "state") # {}
        /\ raised[i] # <<>>

\* Nothing is left to happen between the two pages: no message is on its way
\* and no timer is outstanding, so no step but a user's can publish.
Quiescent ==
    \A i \in Peers : net[i] = <<>> /\ timers[i] = {}

\* C10: two pages that are both master and client of one channel, each
\* applied remote state raising the local change notification: once the users
\* have stopped navigating, the pages come to rest for good, with no message
\* in flight, no timer pending and hence no further publication.
C10_NoFeedbackLoop == <>[]Quiescent

\* Both pages have published, both have applied a state of the other, the
\* users have stopped and the pages are at rest.
C10_Witness ==
    /\ DOMAIN net = Peers
    /\ now >= StartTime + UserWindow
    /\ Quiescent
    /\ \A i \in Peers :
         /\ pubTime[i].immediate > 0
         /\ plugin[i].lastRemoteStateChange > 0

\* ------------------------------------------------------------------ setup
\* C11: however often the socket reports 'connect', the handler of inbound
\* messages and the listeners of the deck's changes are registered once: a
\* message runs handleReceivedMessage once (one setState, one stamp of
\* lastRemoteStateChange) and a notification runs handleStateChange once.
C11_SetupOnce ==
    \A i \in Instances :
        /\ wiring[i].handlers <= 1
        /\ wiring[i].listeners <= 1
        /\ wiring[i].phase = "connected"
             => /\ wiring[i].handlers = 1
                /\ wiring[i].listeners = IF plugin[i].options.secret # UNDEFINED THEN 1 ELSE 0

\* The socket reported 'connect' again after the instance had published and
\* had applied a remote state.
C11_Witness ==
    \E i \in Instances :
        /\ step.op = "connect" /\ step.inst = i
        /\ LastPublication(i) > 0
        /\ plugin[i].lastRemoteStateChange > 0
        /\ wiring[i].handlers = 1 /\ wiring[i].listeners = 1

\* C12: an instance configured without a socketId stays inert for good: init
\* does not connect, no listener of the deck and no handler of the socket is
\* registered, no message (state or events) is emitted and nothing received
\* is applied or forwarded.
C12_InertWithoutSocketId ==
    \A i \in Instances :
        plugin[i].options.socketId = UNDEFINED
            => /\ plugin[i].socket = NULL
               /\ wiring[i].phase \in {"constructed", "inert"}
               /\ wiring[i].listeners = 0
               /\ wiring[i].handlers = 0
               /\ batches[i] = <<>>
               /\ LastPublication(i) = 0
               /\ step.sent = <<>> /\ step.received = <<>>

\* ------------------------------------------------------------------ bursts
\* The state timers instance i set and the browser has not run or dropped.
StateTimers(i) == {tm \in timers[i] : tm.kind = "state"}

C14_EquivalentIffSameRecord ==
    \A i \in Instances :
        (step.inst = i /\ step.op \in {"isEquivalent", "broadcast_isEquivalent"})
            => LET a == deck[i]
                   b == plugin[i].lastSharedState
               IN  step.result <=> /\ DOMAIN a = DOMAIN b
                                   /\ \A name \in DOMAIN a : a[name] = b[name]

\* ------------------------------------------------------------------ convergence
\* C15 as claimed: when no remote state was applied (so no local change fell
\* into a blackout) and every debounce timer has fired, the state the
\* instance last published is the state the engine is in, also when a
\* notification was suppressed as equivalent to lastSharedState while a
\* timer was pending.
C15_LastPublishedIsCurrent ==
    \A i \in Instances :
        ( /\ plugin[i].lastSharedState # NULL
          /\ plugin[i].lastRemoteStateChange = 0
          /\ StateTimers(i) = {} )
            => plugin[i].lastSharedState = deck[i]

\* ------------------------------------------------------------------ remote apply
\* C16: handling a message of its own channel, the instance emits nothing
\* and sets or clears no timer, although setState raises the change
\* notification; when the message moved the deck, the state it moved to is
\* recorded as lastSharedState and the time as lastRemoteStateChange.
C16_RemoteApplyNotRepublished ==
    [][\A i \in Instances :
         (step'.inst = i /\ step'.op = "receive"
            /\ step'.channel = plugin[i].options.socketId)
             => /\ step'.sent = <<>>
                /\ timers'[i] = timers[i]
                /\ plugin'[i].stateDispatchTimer = plugin[i].stateDispatchTimer
                /\ plugin'[i].lastStateChange = plugin[i].lastStateChange
                /\ deck'[i] # deck[i]
                     => /\ plugin'[i].lastSharedState = deck'[i]
                        /\ plugin'[i].lastRemoteStateChange = now']_vars

\* A master that had published, longer ago than stateDispatchDelay, has
\* handled a state message of its channel: the state is applied and recorded.
C16_Witness ==
    \E i \in Instances :
        /\ step.inst = i /\ step.op = "receive"
        /\ step.channel = plugin[i].options.socketId
        /\ wiring[i].listeners > 0
        /\ pubTime[i].immediate > 0
        /\ now - plugin[i].lastStateChange >= stateDispatchDelay
        /\ plugin[i].lastRemoteStateChange = now
        /\ plugin[i].lastSharedState = deck[i]
        /\ deck[i] # InitialState

\* ------------------------------------------------------------------ blackout
\* C17 as claimed: within remoteStateChangeBlackout after it applied a remote
\* state, the instance emits no state publication, neither from a change
\* notification nor from a debounce timer that was set before the remote
\* state arrived and fires inside the window.
C17_NoPublicationInBlackout ==
    \A i \in Instances : ~(Published(i) /\ InBlackout(i))

\* ------------------------------------------------------------------ empty batch
\* C18: every events message an instance emits carries at least one event; a
\* flush timer that fires on an empty queue (a dispatch made at once emptied
\* it after the timer was set) emits nothing and leaves lastEventDispatch as
\* it is.
C18_NoEmptyBatch ==
    [][\A i \in Instances :
         step'.inst = i
             => /\ \A k \in 1..Len(step'.sent) :
                     "events" \in DOMAIN step'.sent[k] => step'.sent[k].events # <<>>
                /\ (step'.op = "eventTimer" /\ plugin[i].eventQueue = <<>>)
                     => /\ step'.sent = <<>>
                        /\ plugin'[i].lastEventDispatch = plugin[i].lastEventDispatch]_vars

\* A flush timer has fired after a dispatch made at once had emptied the
\* queue: nothing was emitted.
C18_Witness ==
    \E i \in Instances :
        /\ step.inst = i /\ step.op = "eventTimer"
        /\ step.sent = <<>>
        /\ plugin[i].eventQueue = <<>>
        /\ Len(batches[i]) >= 2
        /\ plugin[i].lastEventDispatch > 0

\* ------------------------------------------------------------------ immediate publish
\* C19 as claimed: right after handleStateChange has published at once, no
\* debounce timer of the instance is pending, so none can later publish a
\* state older than the one just published; also when the notification came
\* at or after the timer's due time, before its callback ran.
C19_ImmediatePublishClearsTimer ==
    \A i \in Instances :
        (Published(i) /\ step.op \in {"navigate", "notify"})
            => StateTimers(i) = {}

\* ------------------------------------------------------------------ stranded events
\* The flush timer of instance i is pending: the handle is set and the
\* browser holds the timer.
FlushPending(i) ==
    /\ plugin[i].eventDispatchTimer # 0
    /\ \E tm \in timers[i] : tm.kind = "event" /\ tm.id = plugin[i].eventDispatchTimer

\* C20: between two handlers, a queue that holds events has its flush timer
\* pending; and, the timers running when due, every event raised on the
\* instance ends up sent in a batch.
C20_NoStrandedEvents ==
    /\ [](\A i \in Instances : plugin[i].eventQueue # <<>> => FlushPending(i))
    /\ <>[](\A i \in Instances : Concat(batches[i]) = raised[i])

\* Two events wait in the queue for the flush timer, after a batch was sent.
C20_Witness ==
    \E i \in Instances :
        /\ Len(plugin[i].eventQueue) >= 2
        /\ FlushPending(i)
        /\ batches[i] # <<>>

====
